---------------------------- MODULE Spec2Model ----------------------------
(***************************************************************************)
(* A model of wold (src/src/main.rs): a small HTTP server that turns each  *)
(* POST carrying a textual EUI-48 address into one Wake-on-LAN magic       *)
(* packet broadcast over UDP.                                              *)
(*                                                                         *)
(* The process is single threaded (tokio current_thread): the code between *)
(* two .await points runs atomically, so every action below is one such    *)
(* stretch of code.  Bytes are integers 0..255, Option<T> is a sequence of *)
(* length 0 (None) or 1 (Some), a SocketAddr is a record [ip, port].       *)
(***************************************************************************)
EXTENDS Integers, Sequences, FiniteSets, TLC

VARIABLES
    args,       \* std::env::args().skip(1), fixed for the whole run
    mainPc,     \* where main is: start | help | parse_error | bind_error | serving
    cmdline,    \* what parse_command_line returned (Pending before the call)
    addr,       \* main's `addr`: the endpoint handed to run
    dst,        \* main's `dst`: the endpoint captured by the route closure
    listener,   \* the HTTP listener socket: unbound | bound
    rpc,        \* per request: idle | start | bind | send | done | panicked
    target,     \* per request: req.target, the bytes of the JSON field
    decoded,    \* per request: what eui48 returned
    magic,      \* per request: wol's `magic` after assume_init
    sock,       \* per request: wol's `sock`
    tr,         \* per request: the result of bind, set_broadcast and send_to
    calls,      \* per request: how often bind, set_broadcast and send_to ran
    net,        \* per request: the datagrams its socket put on the wire
    outcome     \* per request: the status code of the response (0: none yet)

vars == <<args, mainPc, cmdline, addr, dst, listener, rpc, target, decoded,
          magic, sock, tr, calls, net, outcome>>

procVars == <<args, mainPc, cmdline, addr, dst, listener>>

-----------------------------------------------------------------------------
(* Bounds of the model *)

MaxArgs == 4
MaxReqs == 2
MaxEdits == 1

ReqIds == 1..MaxReqs

-----------------------------------------------------------------------------
(* Option, bytes *)

None == <<>>
Some(x) == <<x>>
IsSome(o) == Len(o) = 1
IsNone(o) == Len(o) = 0

Ord(c) ==
    CASE c = "0" -> 48  [] c = "1" -> 49  [] c = "2" -> 50  [] c = "3" -> 51
      [] c = "4" -> 52  [] c = "5" -> 53  [] c = "6" -> 54  [] c = "7" -> 55
      [] c = "8" -> 56  [] c = "9" -> 57
      [] c = "A" -> 65  [] c = "B" -> 66  [] c = "C" -> 67  [] c = "D" -> 68
      [] c = "E" -> 69  [] c = "F" -> 70
      [] c = "a" -> 97  [] c = "b" -> 98  [] c = "c" -> 99  [] c = "d" -> 100
      [] c = "e" -> 101 [] c = "f" -> 102
      [] c = ":" -> 58  [] c = "-" -> 45
      [] c = "n" -> 110 [] c = "o" -> 111 [] c = "t" -> 116 [] c = "m" -> 109

Bytes(cs) == [i \in 1..Len(cs) |-> Ord(cs[i])]

RECURSIVE BitOr(_, _)
BitOr(x, y) ==
    IF x = 0 THEN y
    ELSE IF y = 0 THEN x
    ELSE (IF x % 2 = 1 \/ y % 2 = 1 THEN 1 ELSE 0) + 2 * BitOr(x \div 2, y \div 2)

WrappingShl(x, n) == (x * (2 ^ n)) % 256

-----------------------------------------------------------------------------
(* Endpoints and the command line *)

SocketAddr(ip, port) == [ip |-> ip, port |-> port]

DefaultAddr == SocketAddr(<<127, 0, 0, 1>>, 3000)
DefaultDst == SocketAddr(<<255, 255, 255, 255>>, 9)
Wildcard == SocketAddr(<<0, 0, 0, 0>>, 0)

\* str::parse::<SocketAddr>() on the words a command line of the model holds:
\* only <ip>:<port> parses; an option word or a host name does not.
ParseSocketAddr(value) ==
    CASE value = "127.0.0.1:3000" -> Some(SocketAddr(<<127, 0, 0, 1>>, 3000))
      [] value = "192.168.1.255:9" -> Some(SocketAddr(<<192, 168, 1, 255>>, 9))
      [] OTHER -> None

ArgWords ==
    {"-h", "--help", "-l", "-d", "-b", "127.0.0.1:3000", "192.168.1.255:9", "localhost"}

ArgLists == UNION {[1..n -> ArgWords] : n \in 0..MaxArgs}

Help == [tag |-> "Help"]
Run(listen_addr, broadcast_addr) ==
    [tag |-> "Run", listen_addr |-> listen_addr, broadcast_addr |-> broadcast_addr]
Err(msg, opt) == [tag |-> "Err", msg |-> msg, opt |-> opt]
Pending == [tag |-> "Pending"]

\* The while-let loop of parse_command_line; i is the number of words the
\* iterator has handed out.
RECURSIVE ParseLoop(_, _, _, _)
ParseLoop(a, i, listen_addr, broadcast_addr) ==
    IF i >= Len(a) THEN Run(listen_addr, broadcast_addr)
    ELSE LET opt == a[i + 1]
             value == IF i + 2 <= Len(a) THEN Some(a[i + 2]) ELSE None
         IN  IF opt \in {"--help", "-h"} THEN Help
             ELSE IF opt = "-l" /\ IsSome(value) THEN
                 LET p == ParseSocketAddr(value[1])
                 IN  IF IsNone(p) THEN Err("failed to parse command line", opt)
                     ELSE ParseLoop(a, i + 2, p, broadcast_addr)
             ELSE IF opt = "-d" /\ IsSome(value) THEN
                 LET p == ParseSocketAddr(value[1])
                 IN  IF IsNone(p) THEN Err("failed to parse command line", opt)
                     ELSE ParseLoop(a, i + 2, listen_addr, p)
             ELSE Err("unknown option", opt)

\* value.parse().ok() in place of `?`: a value that does not parse is dropped.
RECURSIVE ParseLoopLenient(_, _, _, _)
ParseLoopLenient(a, i, listen_addr, broadcast_addr) ==
    IF i >= Len(a) THEN Run(listen_addr, broadcast_addr)
    ELSE LET opt == a[i + 1]
             value == IF i + 2 <= Len(a) THEN Some(a[i + 2]) ELSE None
         IN  IF opt \in {"--help", "-h"} THEN Help
             ELSE IF opt = "-l" /\ IsSome(value) THEN
                 ParseLoopLenient(a, i + 2, ParseSocketAddr(value[1]), broadcast_addr)
             ELSE IF opt = "-d" /\ IsSome(value) THEN
                 ParseLoopLenient(a, i + 2, listen_addr, ParseSocketAddr(value[1]))
             ELSE Err("unknown option", opt)

parse_command_line_lenient(a) == ParseLoopLenient(a, 0, None, None)

\* The "-d" arm, copied from the "-l" arm, still stores into listen_addr.
RECURSIVE ParseLoopCopied(_, _, _, _)
ParseLoopCopied(a, i, listen_addr, broadcast_addr) ==
    IF i >= Len(a) THEN Run(listen_addr, broadcast_addr)
    ELSE LET opt == a[i + 1]
             value == IF i + 2 <= Len(a) THEN Some(a[i + 2]) ELSE None
         IN  IF opt \in {"--help", "-h"} THEN Help
             ELSE IF opt \in {"-l", "-d"} /\ IsSome(value) THEN
                 LET p == ParseSocketAddr(value[1])
                 IN  IF IsNone(p) THEN Err("failed to parse command line", opt)
                     ELSE ParseLoopCopied(a, i + 2, p, broadcast_addr)
             ELSE Err("unknown option", opt)

parse_command_line_copied(a) == ParseLoopCopied(a, 0, None, None)

parse_command_line(a) == ParseLoop(a, 0, None, None)

unwrap_or(o, default) == IF IsSome(o) THEN o[1] ELSE default

-----------------------------------------------------------------------------
(* The address codec *)

f(c) ==
    IF c \in 48..57 THEN Some(c - 48)
    ELSE IF c \in 65..70 THEN Some(c - 65 + 10)
    ELSE IF c \in 97..102 THEN Some(c - 97 + 10)
    ELSE None

\* s.get(n..): the rest of s from offset n, None when n is past the end.
GetFrom(s, n) == IF n <= Len(s) THEN Some(SubSeq(s, n + 1, Len(s))) ELSE None

\* Some([c1, c2, b':' | b'-', ..] | [c1, c2])
GroupPattern(g) ==
    /\ IsSome(g)
    /\ \/ Len(g[1]) >= 3 /\ g[1][3] \in {58, 45}
       \/ Len(g[1]) = 2

RECURSIVE Eui48Loop(_, _, _)
Eui48Loop(s, i, mac) ==
    IF i = 6 THEN Some(mac)
    ELSE LET g == GetFrom(s, i * 3)
         IN  IF GroupPattern(g)
             THEN LET a == f(g[1][1])
                      b == f(g[1][2])
                  IN  IF IsSome(a) /\ IsSome(b)
                      THEN Eui48Loop(s, i + 1,
                               [mac EXCEPT ![i + 1] = BitOr(WrappingShl(a[1], 4), b[1])])
                      ELSE None
             ELSE None

\* The length check is missing.
eui48_unchecked(s) == Eui48Loop(s, 0, <<0, 0, 0, 0, 0, 0>>)

eui48(s) ==
    IF Len(s) # 2 * 6 + 5 THEN None
    ELSE Eui48Loop(s, 0, <<0, 0, 0, 0, 0, 0>>)


-----------------------------------------------------------------------------
(* The packet builder: wol's unsafe block *)

MAGIC_PACKET_HEADER == [i \in 1..6 |-> 255]

\* A byte of MaybeUninit memory nothing has written yet.
Uninit == -1

\* What a byte that was never written may hold once assume_init declares it
\* initialised: anything; three values stand for the 256.
GarbageBytes == {0, 170, 255}

\* A failed length assertion of copy_from_slice leaves no buffer at all.
Panic == <<>>

Min(x, y) == IF x <= y THEN x ELSE y

\* buf[lo..hi].copy_from_slice(src), offsets as in the source (0-based, hi excluded)
CopyFromSlice(buf, lo, hi, src) ==
    IF Len(buf) = 0 \/ hi - lo # Len(src) THEN Panic
    ELSE SubSeq(buf, 1, lo) \o src \o SubSeq(buf, hi + 1, Len(buf))

\* for pp in buf[lo..hi].chunks_mut(6) { pp.copy_from_slice(src) }
\* (end and b, the buffer after one chunk, are bound so that each is computed once)
RECURSIVE ChunksFill(_, _, _, _)
ChunksFill(buf, lo, hi, src) ==
    IF Len(buf) = 0 \/ lo >= hi THEN buf
    ELSE CHOOSE out \in {ChunksFill(b, end, hi, src) :
                            <<end, b>> \in {<<e, CopyFromSlice(buf, lo, e, src)>> :
                                               e \in {Min(lo + 6, hi)}}} : TRUE

\* 15 repetitions instead of 16: the last chunk is never written.
WolBufferShort(mac_addr) ==
    ChunksFill(CopyFromSlice([i \in 1..102 |-> Uninit], 0, 6, MAGIC_PACKET_HEADER),
               6, 96, mac_addr)

\* The buffer as lines 217-222 leave it, before assume_init.
WolBuffer(mac_addr) ==
    ChunksFill(CopyFromSlice([i \in 1..102 |-> Uninit], 0, 6, MAGIC_PACKET_HEADER),
               6, 102, mac_addr)

\* a.assume_init(): the values the array may then have.
AssumeInit(buf) ==
    UNION {{[i \in 1..Len(b) |-> IF i \in U THEN g[i] ELSE b[i]] : g \in [U -> GarbageBytes]} :
              <<b, U>> \in {<<c, {i \in 1..Len(c) : c[i] = Uninit}>> : c \in {buf}}}

-----------------------------------------------------------------------------
(* The request pipeline *)

OK == 200
BAD_REQUEST == 400
INTERNAL_SERVER_ERROR == 500

NoSock == [state |-> "none", local |-> Wildcard, broadcast |-> FALSE]
NoTr == [bind |-> "none", bcast |-> "none", send |-> "none"]
NoCalls == [bind |-> 0, bcast |-> 0, send |-> 0]
Res(ok) == IF ok THEN "ok" ELSE "err"

\* eui48 failing is papered over with the all-zero address.
HandleMatchDefault(t) ==
    IF IsSome(t) THEN [wol |-> TRUE, mac_addr |-> t[1]]
    ELSE [wol |-> TRUE, mac_addr |-> <<0, 0, 0, 0, 0, 0>>]

\* match eui48(&req.target): Some(target) goes on to wol, None answers at once.
HandleMatch(t) ==
    IF IsSome(t) THEN [wol |-> TRUE, mac_addr |-> t[1]]
    ELSE [wol |-> FALSE, mac_addr |-> <<>>]

\* The result of wol is dropped and every request is answered 200.
WolStatusAlwaysOk(ok) == OK

\* match wol(dst, target).await: Ok(_) => OK, Err(err) => INTERNAL_SERVER_ERROR
WolStatus(ok) == IF ok THEN OK ELSE INTERNAL_SERVER_ERROR

\* A failed send_to is tried again.
WolNextRetry(step, ok) ==
    IF step = "bind" THEN (IF ok THEN "set_broadcast" ELSE "return_err")
    ELSE IF step = "set_broadcast" THEN (IF ok THEN "send_to" ELSE "return_err")
    ELSE (IF ok THEN "return_ok" ELSE "send_to")

\* unwrap() in place of `?`: an error panics the request's task.
WolNextUnwrap(step, ok) ==
    IF ~ok THEN "panic"
    ELSE IF step = "bind" THEN "set_broadcast"
    ELSE IF step = "set_broadcast" THEN "send_to"
    ELSE "return_ok"

\* The `?` after bind, set_broadcast and send_to: what wol does next.
WolNext(step, ok) ==
    IF step = "bind" THEN (IF ok THEN "set_broadcast" ELSE "return_err")
    ELSE IF step = "set_broadcast" THEN (IF ok THEN "send_to" ELSE "return_err")
    ELSE (IF ok THEN "return_ok" ELSE "return_err")

\* One buffer shared by all requests: the one built last wins.
PayloadShared(r) ==
    LET built == {q \in ReqIds : Len(magic[q]) > 0}
    IN  magic[CHOOSE q \in built : \A p \in built : q >= p]

\* sock.send_to(&magic, dst): the bytes handed to the socket.
Payload(r) == magic[r]

Datagram(r) ==
    [payload |-> Payload(r), to |-> dst, from |-> sock[r].local,
     broadcast |-> sock[r].broadcast]

\* Where the request is after wol reached `n`, and its response if it has one.
Continue(r, n) ==
    IF n = "send_to" THEN
        /\ rpc' = [rpc EXCEPT ![r] = "send"]
        /\ UNCHANGED outcome
    ELSE IF n \in {"return_ok", "return_err"} THEN
        /\ rpc' = [rpc EXCEPT ![r] = "done"]
        /\ outcome' = [outcome EXCEPT ![r] = WolStatus(n = "return_ok")]
    ELSE
        /\ rpc' = [rpc EXCEPT ![r] = "panicked"]
        /\ UNCHANGED outcome

-----------------------------------------------------------------------------
(* Actions *)

\* main up to serve(): parse the command line, then help, an error, or run.
main ==
    /\ mainPc = "start"
    /\ LET c == parse_command_line(args)
       IN  /\ cmdline' = c
           /\ IF c.tag = "Err" THEN
                  /\ mainPc' = "parse_error"
                  /\ UNCHANGED <<addr, dst, listener>>
              ELSE IF c.tag = "Help" THEN
                  /\ mainPc' = "help"
                  /\ UNCHANGED <<addr, dst, listener>>
              ELSE
                  /\ addr' = unwrap_or(c.listen_addr, addr)
                  /\ dst' = unwrap_or(c.broadcast_addr, dst)
                  /\ \E bound \in BOOLEAN :
                        IF bound
                        THEN mainPc' = "serving" /\ listener' = "bound"
                        ELSE mainPc' = "bind_error" /\ UNCHANGED listener
    /\ UNCHANGED <<args, rpc, target, decoded, magic, sock, tr, calls, net, outcome>>

\* The HTTP layer hands request r, its body field target one of toks, to the route.
Request(r, toks) ==
    /\ mainPc = "serving"
    /\ listener = "bound"
    /\ rpc[r] = "idle"
    /\ \E tok \in toks :
           /\ rpc' = [rpc EXCEPT ![r] = "start"]
           /\ target' = [target EXCEPT ![r] = tok]
    /\ UNCHANGED <<procVars, decoded, magic, sock, tr, calls, net, outcome>>

\* handle_wol_request from its start to the first await (UdpSocket::bind).
\* (t, m and buf are the handler's locals, each computed once)
handle_wol_request(r) ==
    /\ rpc[r] = "start"
    /\ \E t \in {eui48(target[r])} : \E m \in {HandleMatch(t)} :
           /\ decoded' = [decoded EXCEPT ![r] = t]
           /\ IF m.wol THEN
                  \E buf \in {WolBuffer(m.mac_addr)} : \E a \in AssumeInit(buf) :
                      /\ magic' = [magic EXCEPT ![r] = a]
                      /\ IF Len(a) = 0
                         THEN /\ rpc' = [rpc EXCEPT ![r] = "panicked"]
                              /\ UNCHANGED calls
                         ELSE /\ rpc' = [rpc EXCEPT ![r] = "bind"]
                              /\ calls' = [calls EXCEPT ![r].bind = @ + 1]
                      /\ UNCHANGED outcome
              ELSE
                  /\ rpc' = [rpc EXCEPT ![r] = "done"]
                  /\ outcome' = [outcome EXCEPT ![r] = BAD_REQUEST]
                  /\ UNCHANGED <<magic, calls>>
    /\ UNCHANGED <<procVars, target, sock, tr, net>>

\* wol resumed after bind: the `?`, then set_broadcast(true)?, then send_to is
\* called and awaited.
wol_bind(r) ==
    /\ rpc[r] = "bind"
    /\ \E bindOk \in BOOLEAN, bcastOk \in BOOLEAN :
          LET n1 == WolNext("bind", bindOk)
              n2 == WolNext("set_broadcast", bcastOk)
          IN  IF n1 = "set_broadcast" THEN
                  /\ sock' = [sock EXCEPT ![r] =
                         [state |-> IF n2 = "send_to" THEN "bound" ELSE "closed",
                          local |-> Wildcard, broadcast |-> bcastOk]]
                  /\ tr' = [tr EXCEPT ![r].bind = "ok", ![r].bcast = Res(bcastOk)]
                  /\ calls' = [calls EXCEPT ![r].bcast = @ + 1,
                                            ![r].send = IF n2 = "send_to" THEN @ + 1 ELSE @]
                  /\ Continue(r, n2)
              ELSE
                  /\ ~bcastOk
                  /\ tr' = [tr EXCEPT ![r].bind = Res(bindOk)]
                  /\ UNCHANGED <<sock, calls>>
                  /\ Continue(r, n1)
    /\ UNCHANGED <<procVars, target, decoded, magic, net>>

\* wol resumed after send_to: the `?`, Ok(()), and the response.
wol_send(r) ==
    /\ rpc[r] = "send"
    /\ \E sendOk \in BOOLEAN :
          LET n == WolNext("send_to", sendOk)
          IN  /\ tr' = [tr EXCEPT ![r].send = Res(sendOk)]
              /\ net' = IF sendOk THEN [net EXCEPT ![r] = Append(@, Datagram(r))] ELSE net
              /\ calls' = [calls EXCEPT ![r].send = IF n = "send_to" THEN @ + 1 ELSE @]
              /\ sock' = [sock EXCEPT ![r].state = IF n = "send_to" THEN @ ELSE "closed"]
              /\ Continue(r, n)
    /\ UNCHANGED <<procVars, target, decoded, magic>>

-----------------------------------------------------------------------------
(* Inputs *)

\* Targets of the requests of the whole-process specification.
ReqTokens ==
    { Bytes(<<"A","A",":","B","B",":","C","C",":","D","D",":","E","E",":","F","F">>),
      Bytes(<<"0","1",":","2","3","-","4","5",":","6","7","-","8","9",":","a","b">>),
      Bytes(<<"a","a","-","b","b","-","c","c","-","d","d","-","e","e","-","f","f">>),
      Bytes(<<"n","o","t","-","a","-","m","a","c">>),
      Bytes(<<"0","1",":","2","3",":","4","5",":","6","7",":","8","9">>) }

\* Targets of the codec specification: well-formed tokens, and what up to MaxEdits
\* changed bytes, one inserted byte or a cut make of them.
BaseTokens ==
    { Bytes(<<"0","1",":","2","3",":","4","5",":","6","7",":","8","9",":","a","b">>),
      Bytes(<<"A","A","-","B","B","-","C","C","-","D","D","-","E","E","-","F","F">>),
      Bytes(<<"0","1",":","2","3","-","4","5",":","6","7","-","8","9",":","a","b">>) }

\* '-'  '/'  '0'  '9'  ':'  '@'  'A'  'F'  'G'  '`'  'a'  'f'  'g', NUL and 0xff
EditBytes == {45, 47, 48, 57, 58, 64, 65, 70, 71, 96, 97, 102, 103, 0, 255}

RECURSIVE Edited(_, _)
Edited(S, k) ==
    IF k = 0 THEN S
    ELSE LET T == Edited(S, k - 1)
         IN  T \cup {[t EXCEPT ![i] = b] : t \in T, i \in 1..17, b \in EditBytes}

Cuts(S) == {SubSeq(t, 1, n) : t \in S, n \in 0..16}

Inserted(S) ==
    {SubSeq(t, 1, n) \o <<b>> \o SubSeq(t, n + 1, 17) : t \in S, n \in 0..17, b \in EditBytes}

CodecTokens == Edited(BaseTokens, MaxEdits) \cup Cuts(BaseTokens) \cup Inserted(BaseTokens)

-----------------------------------------------------------------------------
(* Specifications *)

IdleRequests ==
    /\ rpc = [r \in ReqIds |-> "idle"]
    /\ target = [r \in ReqIds |-> <<>>]
    /\ decoded = [r \in ReqIds |-> None]
    /\ magic = [r \in ReqIds |-> <<>>]
    /\ sock = [r \in ReqIds |-> NoSock]
    /\ tr = [r \in ReqIds |-> NoTr]
    /\ calls = [r \in ReqIds |-> NoCalls]
    /\ net = [r \in ReqIds |-> <<>>]
    /\ outcome = [r \in ReqIds |-> 0]

\* The process as started with any command line of up to MaxArgs words.
Init ==
    /\ args \in ArgLists
    /\ mainPc = "start"
    /\ cmdline = Pending
    /\ addr = DefaultAddr
    /\ dst = DefaultDst
    /\ listener = "unbound"
    /\ IdleRequests

Next ==
    \/ main
    \/ \E r \in ReqIds : Request(r, ReqTokens)
    \/ \E r \in ReqIds : handle_wol_request(r)
    \/ \E r \in ReqIds : wol_bind(r)
    \/ \E r \in ReqIds : wol_send(r)

Spec == Init /\ [][Next]_vars

\* The runtime polls every task that can make progress, and the operating system
\* completes every bind and send_to, with a result or an error.
Fairness ==
    \A r \in ReqIds :
        /\ WF_vars(handle_wol_request(r))
        /\ WF_vars(wol_bind(r))
        /\ WF_vars(wol_send(r))

\* Targets of the specification with fairness: one that decodes, one that does not.
FairTokens ==
    { Bytes(<<"A","A",":","B","B",":","C","C",":","D","D",":","E","E",":","F","F">>),
      Bytes(<<"n","o","t","-","a","-","m","a","c">>) }

FairNext ==
    \/ main
    \/ \E r \in ReqIds : Request(r, FairTokens)
    \/ \E r \in ReqIds : handle_wol_request(r)
    \/ \E r \in ReqIds : wol_bind(r)
    \/ \E r \in ReqIds : wol_send(r)

FairSpec == Init /\ [][FairNext]_vars /\ Fairness

\* The codec and the builder on many targets: the server as `wold` without
\* arguments leaves it, serving one request.
CodecInit ==
    /\ args = <<>>
    /\ mainPc = "serving"
    /\ cmdline = Run(None, None)
    /\ addr = DefaultAddr
    /\ dst = DefaultDst
    /\ listener = "bound"
    /\ IdleRequests

CodecNext ==
    \/ Request(1, CodecTokens)
    \/ handle_wol_request(1)
    \/ wol_bind(1)
    \/ wol_send(1)

CodecSpec == CodecInit /\ [][CodecNext]_vars

-----------------------------------------------------------------------------
(* The reference decoder and the reference magic packet the claims speak of *)

IsHexDigit(c) == c \in (48..57) \cup (65..70) \cup (97..102)

HexValue(c) ==
    IF c <= 57 THEN c - 48 ELSE IF c <= 70 THEN c - 55 ELSE c - 87

WellFormedToken(s) ==
    /\ Len(s) = 17
    /\ \A i \in 0..5 : IsHexDigit(s[3 * i + 1]) /\ IsHexDigit(s[3 * i + 2])
    /\ \A p \in {3, 6, 9, 12, 15} : s[p] \in {58, 45}

RefDecode(s) ==
    IF WellFormedToken(s)
    THEN Some([i \in 1..6 |-> 16 * HexValue(s[3 * i - 2]) + HexValue(s[3 * i - 1])])
    ELSE None

MagicOf(A) == [i \in 1..102 |-> IF i <= 6 THEN 255 ELSE A[((i - 7) % 6) + 1]]

Handled(r) == rpc[r] \notin {"idle", "start"}
Built(r) == rpc[r] \in {"bind", "send", "done"} /\ IsSome(decoded[r])
AllOk(r) == tr[r] = [bind |-> "ok", bcast |-> "ok", send |-> "ok"]
SomeErr(r) == "err" \in {tr[r].bind, tr[r].bcast, tr[r].send}

-----------------------------------------------------------------------------
(* C1 *)

\* C1: whatever bytes a request carries, eui48 returns what the reference decoder
\* returns: Some(mac) exactly for the 17-byte tokens of six hex pairs separated by
\* ':' or '-', with mac[i] = 16 * high + low, and None for everything else.
C1_Eui48MatchesReference ==
    \A r \in ReqIds : Handled(r) => decoded[r] = RefDecode(target[r])

\* A token with both separators was decoded.
C1_Witness ==
    \E r \in ReqIds :
        /\ Handled(r)
        /\ IsSome(decoded[r])
        /\ \E p, q \in {3, 6, 9, 12, 15} : target[r][p] = 58 /\ target[r][q] = 45

-----------------------------------------------------------------------------
(* C2 *)

\* C2: the payload wol builds for an address A is 102 bytes, six 0xFF and then A
\* sixteen times; the buffer has no unwritten byte when assume_init reads it, so
\* the build has one possible result.
C2_MagicPacketLayout ==
    \A r \in ReqIds :
        Built(r) =>
            LET A == decoded[r][1]
                buf == WolBuffer(A)
            IN  /\ Len(magic[r]) = 102
                /\ \A i \in 0..5 : magic[r][i + 1] = 255
                /\ \A i \in 0..15 : \A j \in 0..5 : magic[r][6 + 6 * i + j + 1] = A[j + 1]
                /\ {i \in 1..Len(buf) : buf[i] = Uninit} = {}
                /\ AssumeInit(buf) = {magic[r]}

\* A packet was built for an address other than the all-ones one.
C2_Witness ==
    \E r \in ReqIds : Built(r) /\ Len(magic[r]) = 102 /\ magic[r][102] # 255

-----------------------------------------------------------------------------
(* C3 *)

SentOwnPacket(r) ==
    /\ IsSome(decoded[r])
    /\ AllOk(r)
    /\ Len(net[r]) = 1
    /\ net[r][1] = [payload |-> MagicOf(decoded[r][1]), to |-> dst,
                    from |-> Wildcard, broadcast |-> TRUE]

\* C3: a request ends with 200 exactly when its target decoded, bind,
\* set_broadcast and send_to all succeeded, and its socket (wildcard address, port
\* chosen by the system, broadcast enabled) sent one datagram, the magic packet of
\* the decoded address, to dst.
C3_OkIffOneDatagram ==
    \A r \in ReqIds : rpc[r] = "done" => (outcome[r] = OK <=> SentOwnPacket(r))

\* A request was answered 200.
C3_Witness ==
    \E r \in ReqIds : rpc[r] = "done" /\ outcome[r] = OK /\ Len(net[r]) = 1

-----------------------------------------------------------------------------
(* C4 *)

\* C4: once eui48 has returned None the request is over with 400: no packet was
\* built, no socket bound, no transport call made, no datagram sent.
C4_DecodeFailureStops ==
    \A r \in ReqIds :
        (Handled(r) /\ IsNone(decoded[r])) =>
            /\ rpc[r] = "done"
            /\ outcome[r] = BAD_REQUEST
            /\ magic[r] = <<>>
            /\ sock[r] = NoSock
            /\ tr[r] = NoTr
            /\ calls[r] = NoCalls
            /\ net[r] = <<>>

\* A request whose target did not decode was answered.
C4_Witness ==
    \E r \in ReqIds : rpc[r] = "done" /\ IsNone(decoded[r]) /\ ~WellFormedToken(target[r])

-----------------------------------------------------------------------------
(* C5 *)

\* C5: a request binds at most once and sends at most once; after a failed bind
\* or set_broadcast nothing further runs and nothing is sent; and a decoded
\* request one of whose transport steps failed is over, with 500.
C5_TransportFailure ==
    \A r \in ReqIds :
        /\ calls[r].bind <= 1
        /\ calls[r].bcast <= 1
        /\ calls[r].send <= 1
        /\ tr[r].bind = "err" => (tr[r].bcast = "none" /\ calls[r].bcast = 0)
        /\ (tr[r].bind = "err" \/ tr[r].bcast = "err") =>
               (tr[r].send = "none" /\ calls[r].send = 0)
        /\ SomeErr(r) =>
               /\ IsSome(decoded[r])
               /\ rpc[r] = "done"
               /\ outcome[r] = INTERNAL_SERVER_ERROR
               /\ net[r] = <<>>

\* A request whose send_to failed was answered.
C5_Witness ==
    \E r \in ReqIds : rpc[r] = "done" /\ tr[r].send = "err" /\ calls[r].send = 1

-----------------------------------------------------------------------------
(* C6 *)

RECURSIVE Datagrams(_)
Datagrams(n) == IF n = 0 THEN 0 ELSE Len(net[n]) + Datagrams(n - 1)

Succeeded(r) == rpc[r] = "done" /\ WellFormedToken(target[r]) /\ AllOk(r)

DistinctTargets(S) == \A p, q \in S : p # q => target[p] # target[q]

\* C6: requests with well-formed, pairwise distinct targets whose transport steps
\* all succeeded, however their steps interleaved, each sent one datagram, the
\* magic packet of its own target, to dst; when these are all the requests, the
\* datagrams sent are as many as the requests.
C6_NoCrossRequestCorruption ==
    \A S \in SUBSET ReqIds :
        ((\A r \in S : Succeeded(r)) /\ DistinctTargets(S)) =>
            /\ \A r \in S :
                   /\ Len(net[r]) = 1
                   /\ net[r][1].payload = MagicOf(RefDecode(target[r])[1])
                   /\ net[r][1].to = dst
            /\ S = ReqIds => Datagrams(MaxReqs) = MaxReqs

\* Every request succeeded, with targets that decode to different addresses.
C6_Witness ==
    /\ \A r \in ReqIds : Succeeded(r)
    /\ \A p, q \in ReqIds : p # q => decoded[p] # decoded[q]

-----------------------------------------------------------------------------
(* C7 *)

OutcomeFor(r) ==
    IF ~WellFormedToken(target[r]) THEN BAD_REQUEST
    ELSE IF AllOk(r) THEN OK
    ELSE INTERNAL_SERVER_ERROR

\* C7: no step of a serving process stops the listener or changes dst, whatever
\* the requests' outcomes; and every request handed to the route is eventually
\* answered, with the outcome its own target and its own transport results give.
C7_FailuresAreIsolated ==
    /\ [][mainPc = "serving" =>
             (mainPc' = "serving" /\ listener' = "bound" /\ dst' = dst)]_vars
    /\ [](\A r \in ReqIds : rpc[r] = "done" => outcome[r] = OutcomeFor(r))
    /\ \A r \in ReqIds : (rpc[r] = "start") ~> (rpc[r] = "done")

\* One request failed and another one succeeded, the listener still bound.
C7_Witness ==
    /\ mainPc = "serving"
    /\ listener = "bound"
    /\ \E p, q \in ReqIds :
           /\ rpc[p] = "done" /\ outcome[p] \in {BAD_REQUEST, INTERNAL_SERVER_ERROR}
           /\ rpc[q] = "done" /\ outcome[q] = OK

-----------------------------------------------------------------------------
(* C8 *)

\* C8: '-b <endpoint>' makes the endpoint the destination: the command line
\* <<"-b", A>> parses to Run with broadcast_addr = Some(A), and the datagrams of
\* the server go to A.
C8_DashBSetsDestination ==
    (mainPc # "start" /\ Len(args) = 2 /\ args[1] = "-b"
        /\ IsSome(ParseSocketAddr(args[2]))) =>
        /\ cmdline = Run(None, ParseSocketAddr(args[2]))
        /\ mainPc \in {"serving", "bind_error"}
        /\ dst = ParseSocketAddr(args[2])[1]
        /\ \A r \in ReqIds : \A i \in 1..Len(net[r]) : net[r][i].to = dst

-----------------------------------------------------------------------------
(* C9 *)

HelpFlags == {"-h", "--help"}
EndpointOptions == {"-l", "-d", "-b"}

\* Word k is an endpoint option and word k + 1 does not parse as an endpoint.
MalformedAt(a, k) ==
    /\ k + 1 <= Len(a)
    /\ a[k] \in EndpointOptions
    /\ IsNone(ParseSocketAddr(a[k + 1]))

NeverServed ==
    /\ listener = "unbound"
    /\ mainPc \notin {"serving", "bind_error"}
    /\ \A r \in ReqIds : rpc[r] = "idle" /\ net[r] = <<>>

\* C9 as stated: an endpoint option followed by a value that is no endpoint makes
\* parse_command_line fail, main return the error without calling run, and so no
\* listener is bound, no request served, no datagram sent.
C9_MalformedEndpointIsError ==
    (mainPc # "start" /\ \E k \in 1..Len(args) : MalformedAt(args, k)) =>
        /\ cmdline.tag = "Err"
        /\ mainPc = "parse_error"
        /\ NeverServed

\* C9 amended: the same, when no help flag stands before the malformed pair; when
\* one does, the command line may parse to Help instead. Either way run is not
\* called: no listener is bound, no request served, no datagram sent.
C9_MalformedEndpointNeverRuns ==
    \A k \in 1..Len(args) :
        (mainPc # "start" /\ MalformedAt(args, k)) =>
            /\ (\A j \in 1..(k - 1) : args[j] \notin HelpFlags) =>
                   (cmdline.tag = "Err" /\ mainPc = "parse_error")
            /\ cmdline.tag \in {"Err", "Help"}
            /\ cmdline.tag = "Help" => mainPc = "help"
            /\ NeverServed

\* main has returned the error of "-l" followed by a host name.
C9_Witness ==
    /\ mainPc = "parse_error"
    /\ \E k \in 1..Len(args) :
           /\ MalformedAt(args, k)
           /\ args[k] = "-l"
           /\ args[k + 1] = "localhost"
           /\ \A j \in 1..(k - 1) : args[j] \notin HelpFlags
    /\ cmdline = Err("failed to parse command line", "-l")

-----------------------------------------------------------------------------
(* C10 *)

\* The first n words are n / 2 well-formed "-l <addr>" or "-d <addr>" pairs.
PairsUpTo(a, n) ==
    /\ n % 2 = 0
    /\ n <= Len(a)
    /\ \A k \in 1..n : k % 2 = 1 =>
           (a[k] \in {"-l", "-d"} /\ IsSome(ParseSocketAddr(a[k + 1])))

\* The value of the last pair with option opt among the first n words.
LastValue(a, n, opt) ==
    LET K == {k \in 1..n : k % 2 = 1 /\ a[k] = opt}
    IN  IF K = {} THEN None
        ELSE ParseSocketAddr(a[(CHOOSE k \in K : \A j \in K : j <= k) + 1])

\* C10: a command line of well-formed pairs only (the empty one too) parses to
\* Run, listen_addr from its last "-l" and broadcast_addr from its last "-d", None
\* where there is none; a help flag after any number of well-formed pairs makes
\* the result Help, whatever follows it.
C10_ParseCommandLine ==
    mainPc # "start" =>
        /\ PairsUpTo(args, Len(args)) =>
               cmdline = Run(LastValue(args, Len(args), "-l"),
                             LastValue(args, Len(args), "-d"))
        /\ \A n \in 0..(Len(args) - 1) :
               (PairsUpTo(args, n) /\ args[n + 1] \in HelpFlags) => cmdline = Help

\* "-l" and "-d" were both given, with different endpoints, and both are kept.
C10_Witness ==
    /\ mainPc = "serving"
    /\ Len(args) = 4
    /\ cmdline.tag = "Run"
    /\ IsSome(cmdline.listen_addr)
    /\ IsSome(cmdline.broadcast_addr)
    /\ cmdline.listen_addr # cmdline.broadcast_addr
    /\ addr = cmdline.listen_addr[1]
    /\ dst = cmdline.broadcast_addr[1]

=============================================================================
